---------------------------- MODULE Spec2Model ----------------------------
(* glyph_image.c: dump the glyph images of a font as text.                 *)
(* The model follows main() and render() statement by statement.  stdout   *)
(* and stderr are sequences of lines; a line is the fixed part of its      *)
(* printf format (tag) and the formatted arguments as a sequence of        *)
(* characters (val), so that a reader of the output has to parse it.       *)
EXTENDS Integers, Sequences, FiniteSets, TLC

(***************************************************************************)
(* Bounds of the model and constants of the program                        *)
(***************************************************************************)
MaxGlyphs == 2

MinSize == 4

SizeError == 100

UsageError == -1

DefaultPixelHeight == 48

DefaultFirstGlyph == 0

DefaultLastGlyph == -1

MaxPixelHeight == 1000

AdvShift == 6

AdvFracBase == 63

(***************************************************************************)
(* C arithmetic                                                            *)
(***************************************************************************)
\* a >> n on a signed int (arithmetic shift: rounds toward minus infinity)
Shr(a, n) == IF a >= 0 THEN a \div (2 ^ n)
             ELSE -(((-a) + (2 ^ n) - 1) \div (2 ^ n))

\* a % b in C: the sign follows the dividend
CRem(a, b) == IF a >= 0 THEN a % b ELSE -((-a) % b)

(***************************************************************************)
(* printf conversions                                                      *)
(***************************************************************************)
DigitChars == <<"0", "1", "2", "3", "4", "5", "6", "7", "8", "9">>

HexChars == <<"0", "1", "2", "3", "4", "5", "6", "7", "8", "9",
              "a", "b", "c", "d", "e", "f">>

RECURSIVE FmtUnsigned(_)
FmtUnsigned(n) == IF n < 10 THEN <<DigitChars[n + 1]>>
                  ELSE FmtUnsigned(n \div 10) \o <<DigitChars[(n % 10) + 1]>>

\* "%d"
FmtD(n) == IF n < 0 THEN <<"-">> \o FmtUnsigned(-n) ELSE FmtUnsigned(n)

\* "%02x" of a byte
Fmt02x(v) == <<HexChars[(v \div 16) + 1], HexChars[(v % 16) + 1]>>

Line(tag, val) == [tag |-> tag, val |-> val]

(***************************************************************************)
(* The rasterizer's answers: what FT_Load_Glyph and FT_Render_Glyph leave  *)
(* in face->glyph.  buffer is the flat byte array, a row every pitch bytes.*)
(***************************************************************************)
Bitmap(width, rows, pitch, buffer) ==
    [width |-> width, rows |-> rows, pitch |-> pitch, buffer |-> buffer]

Slot(adv, left, top, bm) ==
    [advance |-> adv, bitmap_left |-> left, bitmap_top |-> top, bitmap |-> bm]

EmptyBitmap == Bitmap(0, 0, 0, <<>>)

Slots ==
    { Slot(0, 0, 0, Bitmap(0, 2, 0, <<>>)),
      Slot(63, 1, 1, Bitmap(1, 1, 1, <<5>>)),
      Slot(64, 0, 2, Bitmap(3, 2, 4, <<0, 0, 0, 238, 7, 0, 255, 238>>)),
      Slot(100, -1, 3, Bitmap(4, 3, 4, <<1, 0, 16, 0, 0, 0, 0, 171, 9, 10, 0, 0>>)),
      Slot(4032, 2, -1, Bitmap(2, 2, 2, <<0, 0, 0, 1>>)),
      Slot(-1, 0, 0, EmptyBitmap) }

\* error codes a FreeType call may return (FT_Err_Cannot_Open_Resource,
\* FT_Err_Invalid_Argument); any non-zero value takes the same branch
FTErrors == {1, 6}

\* the font files render may be given: a glyph count and the glyphs
FontFiles ==
    UNION { { [num_glyphs |-> n, glyphs |-> g] : g \in [0 .. (n - 1) -> Slots] }
            : n \in 0 .. MaxGlyphs }

\* command lines: argv[2..4] after atoi
PixelArgs == {0, 1, 3, 4, 48, 1001}

FirstArgs == {-3} \cup (-1 .. MaxGlyphs)

LastArgs == (-2 .. MaxGlyphs) \cup {100}

VARIABLES
    argc, argv,              \* main's arguments (argv[2..4] as atoi reads them)
    font,                    \* the font file at argv[1]
    pc,                      \* position in main/render
    library, face,           \* whether the FT_Library / FT_Face are held
    size, first_glyph_index, last_glyph_index,   \* render's parameters
    glyph_index,             \* render's loop variable
    outline,                 \* the glyph FT_Load_Glyph left to be rendered
    slot,                    \* face->glyph
    out, err,                \* stdout, stderr
    error,                   \* render's return value
    exit_code                \* main's return value

vars == <<argc, argv, font, pc, library, face, size, first_glyph_index,
          last_glyph_index, glyph_index, outline, slot, out, err, error, exit_code>>

Init ==
    /\ argc \in 1 .. 5
    /\ argv \in [pixel : PixelArgs, first : FirstArgs, last : LastArgs]
    /\ argc < 3 => argv.pixel = DefaultPixelHeight
    /\ argc < 4 => argv.first = DefaultFirstGlyph
    /\ argc < 5 => argv.last = DefaultLastGlyph
    /\ font \in FontFiles
    /\ pc = "main"
    /\ library = FALSE
    /\ face = FALSE
    /\ size = 0
    /\ first_glyph_index = 0
    /\ last_glyph_index = 0
    /\ glyph_index = 0
    /\ outline = Slot(0, 0, 0, EmptyBitmap)
    /\ slot = Slot(0, 0, 0, EmptyBitmap)
    /\ out = <<>>
    /\ err = <<>>
    /\ error = 0
    /\ exit_code = 0

(***************************************************************************)
(* render: the pure parts                                                  *)
(***************************************************************************)
\* ResolveRange without its last branch: an inverted request is kept
ResolveRange_KeepInverted(first, last, num_glyphs) ==
    LET f == IF first < 0 THEN 0
             ELSE IF first >= num_glyphs THEN num_glyphs - 1
             ELSE first
        l == IF last = -1 \/ last >= num_glyphs THEN num_glyphs - 1
             ELSE last
    IN  [first |-> f, last |-> l]

\* ResolveRange without the test for the -1 sentinel
ResolveRange_NoSentinel(first, last, num_glyphs) ==
    LET f == IF first < 0 THEN 0
             ELSE IF first >= num_glyphs THEN num_glyphs - 1
             ELSE first
        l == IF last >= num_glyphs THEN num_glyphs - 1
             ELSE IF last < f THEN f
             ELSE last
    IN  [first |-> f, last |-> l]

\* lines 57-67: the two if / else-if chains on the requested range
ResolveRange(first, last, num_glyphs) ==
    LET f == IF first < 0 THEN 0
             ELSE IF first >= num_glyphs THEN num_glyphs - 1
             ELSE first
        l == IF last = -1 \/ last >= num_glyphs THEN num_glyphs - 1
             ELSE IF last < f THEN f
             ELSE last
    IN  [first |-> f, last |-> l]

\* NumGlyphsField counting an exclusive range
NumGlyphsField_Exclusive(first, last) == last - first

\* line 83: the value of the num_glyphs field
NumGlyphsField(first, last) == last - first + 1

\* lines 69-83: the document header
DocHeader(f, sz, first, last) ==
    << Line("# generated on ", <<"%F %T">>),
       Line("> file: ", <<"font">>),
       Line("> name: ", <<"Family", "-", "Style">>),
       Line("> upem: ", FmtD(1000)),
       Line("> ascent: ", FmtD(800)),
       Line("> descent: ", FmtD(-(-200))),
       Line("> size: ", FmtD(sz)),
       Line("> font_glyphs: ", FmtD(f.num_glyphs)),
       Line("# first: ", FmtD(first)),
       Line("# last: ", FmtD(last)),
       Line("> num_glyphs: ", FmtD(NumGlyphsField(first, last))) >>

\* AdvanceText with the fraction taken modulo 64
AdvanceText_Mod64(adv) ==
    LET adv_int == Shr(adv, AdvShift)
        adv_frac == CRem(adv, 64)
    IN  IF adv_frac # 0 THEN FmtD(adv_int) \o <<",">> \o FmtD(adv_frac)
        ELSE FmtD(adv_int)

\* lines 102-109: the advance as text
AdvanceText(adv) ==
    LET adv_int == Shr(adv, AdvShift)
        adv_frac == CRem(adv, AdvFracBase)
    IN  IF adv_frac # 0 THEN FmtD(adv_int) \o <<",">> \o FmtD(adv_frac)
        ELSE FmtD(adv_int)

\* lines 110-112: the glyph header line
GlyphHeader(g, s) ==
    Line("> glyph: ",
         FmtD(g) \o <<";">> \o AdvanceText(s.advance) \o <<";">>
         \o FmtD(s.bitmap_left) \o <<" ">> \o FmtD(-s.bitmap_top) \o <<" ">>
         \o FmtD(s.bitmap.width) \o <<" ">> \o FmtD(s.bitmap.rows))

\* lines 116-119: the while loop, from column cc of the row at offset p
RECURSIVE ScanBack(_, _, _)
ScanBack(bm, p, cc) ==
    IF cc >= 0 /\ bm.buffer[p + cc + 1] = 0 THEN ScanBack(bm, p, cc - 1)
    ELSE cc

\* EmitColumns with the column max_cc included
RECURSIVE EmitColumns_Inclusive(_, _, _, _)
EmitColumns_Inclusive(bm, p, cc, max_cc) ==
    IF cc <= max_cc
    THEN (IF bm.buffer[p + cc + 1] # 0 THEN Fmt02x(bm.buffer[p + cc + 1])
          ELSE <<" ", " ">>)
         \o EmitColumns_Inclusive(bm, p, cc + 1, max_cc)
    ELSE <<>>

\* lines 120-127: the for loop, from column cc up to max_cc
RECURSIVE EmitColumns(_, _, _, _)
EmitColumns(bm, p, cc, max_cc) ==
    IF cc < max_cc
    THEN (IF bm.buffer[p + cc + 1] # 0 THEN Fmt02x(bm.buffer[p + cc + 1])
          ELSE <<" ", " ">>)
         \o EmitColumns(bm, p, cc + 1, max_cc)
    ELSE <<>>

\* lines 114-129: the body of the row loop for row rc
EncodeRow(bm, rc) ==
    LET p == rc * bm.pitch
        max_cc == ScanBack(bm, p, bm.width - 1)
    IN  Line(":", EmitColumns(bm, p, 0, max_cc))

\* lines 110-129: one glyph's record
GlyphRecord(g, s) ==
    <<GlyphHeader(g, s)>> \o [i \in 1 .. s.bitmap.rows |-> EncodeRow(s.bitmap, i - 1)]

(***************************************************************************)
(* main and render, one action per statement group                         *)
(***************************************************************************)
Return(e, msg) ==
    /\ error' = e
    /\ err' = Append(err, msg)
    /\ pc' = "returned"

\* lines 137-162, up to the call of render
Main ==
    /\ pc = "main"
    /\ IF argc < 2
       THEN /\ err' = Append(err, Line("usage", <<>>))
            /\ exit_code' = UsageError
            /\ pc' = "exited"
            /\ UNCHANGED <<size, first_glyph_index, last_glyph_index>>
       ELSE IF argc > 2 /\ (argv.pixel < 1 \/ argv.pixel > MaxPixelHeight)
       THEN /\ err' = Append(err, Line("bad pixel height ", FmtD(argv.pixel)))
            /\ exit_code' = UsageError
            /\ pc' = "exited"
            /\ UNCHANGED <<size, first_glyph_index, last_glyph_index>>
       ELSE /\ size' = (IF argc > 2 THEN argv.pixel ELSE DefaultPixelHeight)
            /\ first_glyph_index' = (IF argc > 3 THEN argv.first ELSE DefaultFirstGlyph)
            /\ last_glyph_index' = (IF argc > 4 THEN argv.last ELSE DefaultLastGlyph)
            /\ pc' = "init"
            /\ UNCHANGED <<err, exit_code>>
    /\ UNCHANGED <<argc, argv, font, library, face, glyph_index, outline, slot,
                   out, error>>

\* lines 33-38
InitFreeType ==
    /\ pc = "init"
    /\ \E e \in {0} \cup FTErrors :
         IF e # 0
         THEN /\ Return(e, Line("failed to init freetype", <<>>))
              /\ UNCHANGED library
         ELSE /\ library' = TRUE
              /\ pc' = "new_face"
              /\ UNCHANGED <<error, err>>
    /\ UNCHANGED <<argc, argv, font, face, size, first_glyph_index,
                   last_glyph_index, glyph_index, outline, slot, out, exit_code>>

\* lines 39-44
NewFace ==
    /\ pc = "new_face"
    /\ \E e \in {0} \cup FTErrors :
         IF e # 0
         THEN /\ Return(e, Line("failed to create face for ", <<"font">>))
              /\ UNCHANGED face
         ELSE /\ face' = TRUE
              /\ pc' = "check_size"
              /\ UNCHANGED <<error, err>>
    /\ UNCHANGED <<argc, argv, font, library, size, first_glyph_index,
                   last_glyph_index, glyph_index, outline, slot, out, exit_code>>

\* lines 46-49
CheckSize ==
    /\ pc = "check_size"
    /\ IF size < MinSize
       THEN Return(SizeError, Line("size too small ", FmtD(size)))
       ELSE /\ pc' = "set_size"
            /\ UNCHANGED <<error, err>>
    /\ UNCHANGED <<argc, argv, font, library, face, size, first_glyph_index,
                   last_glyph_index, glyph_index, outline, slot, out, exit_code>>

\* lines 51-55
SetPixelSizes ==
    /\ pc = "set_size"
    /\ \E e \in {0} \cup FTErrors :
         IF e # 0
         THEN Return(e, Line("failed to set size ", FmtD(size)))
         ELSE /\ pc' = "resolve"
              /\ UNCHANGED <<error, err>>
    /\ UNCHANGED <<argc, argv, font, library, face, size, first_glyph_index,
                   last_glyph_index, glyph_index, outline, slot, out, exit_code>>

\* lines 57-67
Resolve ==
    /\ pc = "resolve"
    /\ LET r == ResolveRange(first_glyph_index, last_glyph_index, font.num_glyphs)
       IN  /\ first_glyph_index' = r.first
           /\ last_glyph_index' = r.last
    /\ pc' = "header"
    /\ UNCHANGED <<argc, argv, font, library, face, size, glyph_index, outline,
                   slot, out, err, error, exit_code>>

\* lines 69-87 (the header and the loop's initialisation)
WriteHeader ==
    /\ pc = "header"
    /\ out' = out \o DocHeader(font, size, first_glyph_index, last_glyph_index)
    /\ glyph_index' = first_glyph_index
    /\ pc' = "loop"
    /\ UNCHANGED <<argc, argv, font, library, face, size, first_glyph_index,
                   last_glyph_index, outline, slot, err, error, exit_code>>

\* what FT_Load_Glyph may leave for index g: the font's glyph, or, for an
\* index the font does not have, whatever the driver makes of it
Loadable(g) == IF g \in DOMAIN font.glyphs THEN {font.glyphs[g]} ELSE Slots

\* LoadGlyph going on to the next glyph when the load fails
LoadGlyph_Skip ==
    /\ pc = "loop"
    /\ glyph_index <= last_glyph_index
    /\ \E e \in {0} \cup FTErrors :
         IF e # 0
         THEN /\ err' = Append(err, Line("failed to load glyph ", FmtD(glyph_index)))
              /\ glyph_index' = glyph_index + 1
              /\ pc' = "loop"
              /\ UNCHANGED <<outline, slot, error>>
         ELSE /\ \E s \in Loadable(glyph_index) :
                   /\ outline' = s
                   /\ slot' = Slot(s.advance, 0, 0, EmptyBitmap)
              /\ pc' = "render"
              /\ UNCHANGED <<error, err, glyph_index>>
    /\ UNCHANGED <<argc, argv, font, library, face, size, first_glyph_index,
                   last_glyph_index, out, exit_code>>

\* lines 87-94: the loop test and FT_Load_Glyph
LoadGlyph ==
    /\ pc = "loop"
    /\ glyph_index <= last_glyph_index
    /\ \E e \in {0} \cup FTErrors :
         IF e # 0
         THEN /\ Return(e, Line("failed to load glyph ", FmtD(glyph_index)))
              /\ UNCHANGED <<outline, slot>>
         ELSE /\ \E s \in Loadable(glyph_index) :
                   /\ outline' = s
                   /\ slot' = Slot(s.advance, 0, 0, EmptyBitmap)
              /\ pc' = "render"
              /\ UNCHANGED <<error, err>>
    /\ UNCHANGED <<argc, argv, font, library, face, size, first_glyph_index,
                   last_glyph_index, glyph_index, out, exit_code>>

\* RenderGlyph reporting the failure without returning
RenderGlyph_NoReturn ==
    /\ pc = "render"
    /\ \E e \in {0} \cup FTErrors :
         IF e # 0
         THEN /\ err' = Append(err, Line("failed to render glyph ", FmtD(glyph_index)))
              /\ error' = e
              /\ pc' = "emit"
              /\ UNCHANGED slot
         ELSE /\ slot' = outline
              /\ pc' = "emit"
              /\ UNCHANGED <<error, err>>
    /\ UNCHANGED <<argc, argv, font, library, face, size, first_glyph_index,
                   last_glyph_index, glyph_index, outline, out, exit_code>>

\* lines 95-99: FT_Render_Glyph
RenderGlyph ==
    /\ pc = "render"
    /\ \E e \in {0} \cup FTErrors :
         IF e # 0
         THEN /\ Return(e, Line("failed to render glyph ", FmtD(glyph_index)))
              /\ UNCHANGED slot
         ELSE /\ slot' = outline
              /\ pc' = "emit"
              /\ UNCHANGED <<error, err>>
    /\ UNCHANGED <<argc, argv, font, library, face, size, first_glyph_index,
                   last_glyph_index, glyph_index, outline, out, exit_code>>

\* lines 100-130: the glyph's record, and glyph_index++
EmitRecord ==
    /\ pc = "emit"
    /\ out' = out \o GlyphRecord(glyph_index, slot)
    /\ glyph_index' = glyph_index + 1
    /\ pc' = "loop"
    /\ UNCHANGED <<argc, argv, font, library, face, size, first_glyph_index,
                   last_glyph_index, outline, slot, err, error, exit_code>>

\* lines 87, 131-133: the loop ends, the end marker, return 0
WriteEOF ==
    /\ pc = "loop"
    /\ ~(glyph_index <= last_glyph_index)
    /\ out' = Append(out, Line("# EOF", <<>>))
    /\ error' = 0
    /\ pc' = "returned"
    /\ UNCHANGED <<argc, argv, font, library, face, size, first_glyph_index,
                   last_glyph_index, glyph_index, outline, slot, err, exit_code>>

\* line 162: main returns what render returned
Exit ==
    /\ pc = "returned"
    /\ exit_code' = error
    /\ pc' = "exited"
    /\ UNCHANGED <<argc, argv, font, library, face, size, first_glyph_index,
                   last_glyph_index, glyph_index, outline, slot, out, err, error>>

Next ==
    \/ Main
    \/ InitFreeType
    \/ NewFace
    \/ CheckSize
    \/ SetPixelSizes
    \/ Resolve
    \/ WriteHeader
    \/ LoadGlyph
    \/ RenderGlyph
    \/ EmitRecord
    \/ WriteEOF
    \/ Exit

Spec == Init /\ [][Next]_vars

(***************************************************************************)
(* Reading the output back                                                 *)
(***************************************************************************)
RECURSIVE IndexOf(_, _, _)
IndexOf(s, c, i) == IF i > Len(s) THEN 0
                    ELSE IF s[i] = c THEN i
                    ELSE IndexOf(s, c, i + 1)

RECURSIVE Split(_, _)
Split(s, sep) ==
    LET i == IndexOf(s, sep, 1)
    IN  IF i = 0 THEN <<s>>
        ELSE <<SubSeq(s, 1, i - 1)>> \o Split(SubSeq(s, i + 1, Len(s)), sep)

DigitVal(c) == CHOOSE d \in 0 .. 9 : DigitChars[d + 1] = c

HexVal(c) == CHOOSE d \in 0 .. 15 : HexChars[d + 1] = c

IsHexChar(c) == \E d \in 0 .. 15 : HexChars[d + 1] = c

RECURSIVE ParseUnsigned(_)
ParseUnsigned(s) == IF Len(s) = 0 THEN 0
                    ELSE 10 * ParseUnsigned(SubSeq(s, 1, Len(s) - 1)) + DigitVal(s[Len(s)])

ParseDec(s) == IF Len(s) > 0 /\ s[1] = "-" THEN -ParseUnsigned(Tail(s))
               ELSE ParseUnsigned(s)

\* a row line read back: a space pair is 0, a hex pair its value, a column
\* the line does not have is 0
DecodeRow(val, width) ==
    [c \in 0 .. (width - 1) |->
        IF 2 * c + 2 > Len(val) THEN 0
        ELSE IF val[2 * c + 1] = " " /\ val[2 * c + 2] = " " THEN 0
        ELSE 16 * HexVal(val[2 * c + 1]) + HexVal(val[2 * c + 2])]

IsPrefix(a, b) == Len(a) <= Len(b) /\ SubSeq(b, 1, Len(a)) = a

IsGlyphHeader(l) == l.tag = "> glyph: "

IsEOF(l) == l.tag = "# EOF"

HasEOF == \E i \in DOMAIN out : IsEOF(out[i])

\* the fields of a glyph header line: index ; advance ; left top width height
HeaderIndex(l) == ParseDec(Split(l.val, ";")[1])

HeaderAdvance(l) == Split(l.val, ";")[2]

HeaderHeight(l) == ParseDec(Split(Split(l.val, ";")[3], " ")[4])

\* the glyph indices of the glyph headers written so far, in order
GlyphIndices ==
    LET hs == SelectSeq(out, IsGlyphHeader)
    IN  [i \in 1 .. Len(hs) |-> HeaderIndex(hs[i])]

Ascending(a, b) == [i \in 1 .. (IF b >= a THEN b - a + 1 ELSE 0) |-> a + i - 1]

\* the value written in the num_glyphs field
NumGlyphsWritten ==
    LET i == CHOOSE j \in DOMAIN out : out[j].tag = "> num_glyphs: "
    IN  ParseDec(out[i].val)

\* what main passes to render
RequestedFirst == IF argc > 3 THEN argv.first ELSE DefaultFirstGlyph

RequestedLast == IF argc > 4 THEN argv.last ELSE DefaultLastGlyph

RenderCalled ==
    /\ pc # "main"
    /\ ~(pc = "exited" /\ err # <<>> /\ err[1].tag \in {"usage", "bad pixel height "})

Resolved == pc \in {"header", "loop", "render", "emit"} \/ out # <<>>

Done == pc \in {"returned", "exited"}

\* the value the run ends with
Result == IF pc = "exited" THEN exit_code ELSE error

\* the last record written is that of face->glyph
JustEmitted == pc = "loop" /\ glyph_index > first_glyph_index

LastHeaderLine == out[Len(out) - slot.bitmap.rows]

LastRowLine(rc) == out[Len(out) - slot.bitmap.rows + rc + 1]

\* row rc of a bitmap, column by column
RowOf(bm, rc) == [c \in 0 .. (bm.width - 1) |-> bm.buffer[rc * bm.pitch + c + 1]]

\* the index of the last non-zero column of a row, -1 when there is none
LastNonZero(row) ==
    LET nz == {c \in DOMAIN row : row[c] # 0}
    IN  IF nz = {} THEN -1 ELSE CHOOSE c \in nz : \A d \in nz : d <= c

(***************************************************************************)
(* C1  Range clamping: for every glyph count > 0 and every requested first *)
(* and last, the range render resolves satisfies                           *)
(* 0 <= first <= last <= glyphCount - 1.                                   *)
(***************************************************************************)
C1_RangeClamped ==
    (Resolved /\ font.num_glyphs > 0) =>
        /\ 0 <= first_glyph_index
        /\ first_glyph_index <= last_glyph_index
        /\ last_glyph_index <= font.num_glyphs - 1

C1_Witness ==
    /\ pc = "header"
    /\ font.num_glyphs = 2
    /\ RequestedFirst = -3
    /\ RequestedLast = 100
    /\ first_glyph_index = 0
    /\ last_glyph_index = 1

(***************************************************************************)
(* C2  For every glyph count > 0 the range of render's if / else-if chains *)
(* is the result of the three sequential steps: first clamped into         *)
(* [0, glyphCount-1]; last set to glyphCount-1 when it is -1 or            *)
(* >= glyphCount; last set to first when last < first.  resolve(0,-1,10)   *)
(* is {0,9} and resolve(5,2,10) is {5,5}.                                  *)
(***************************************************************************)
SequentialSteps(first, last, n) ==
    LET f1 == IF first < 0 THEN 0 ELSE first
        f2 == IF f1 >= n THEN n - 1 ELSE f1
        l1 == IF last = -1 \/ last >= n THEN n - 1 ELSE last
        l2 == IF l1 < f2 THEN f2 ELSE l1
    IN  [first |-> f2, last |-> l2]

\* C2: the resolved range is that of the three sequential steps
C2_SequentialSteps ==
    /\ (Resolved /\ font.num_glyphs > 0) =>
          [first |-> first_glyph_index, last |-> last_glyph_index]
              = SequentialSteps(RequestedFirst, RequestedLast, font.num_glyphs)
    /\ ResolveRange(0, -1, 10) = [first |-> 0, last |-> 9]
    /\ ResolveRange(5, 2, 10) = [first |-> 5, last |-> 5]

C2_Witness ==
    /\ pc = "header"
    /\ font.num_glyphs = 2
    /\ RequestedFirst = 1
    /\ RequestedLast = 0
    /\ first_glyph_index = 1
    /\ last_glyph_index = 1

(***************************************************************************)
(* C3  Row round trip: a row line read back agrees with the coverage row   *)
(* on every column from 0 up to and including the last non-zero column.    *)
(***************************************************************************)
C3_RowRoundTrip ==
    JustEmitted =>
        \A rc \in 0 .. (slot.bitmap.rows - 1) :
            LET row == RowOf(slot.bitmap, rc)
                dec == DecodeRow(LastRowLine(rc).val, slot.bitmap.width)
            IN  \A c \in 0 .. LastNonZero(row) : dec[c] = row[c]

(***************************************************************************)
(* C4  '# EOF' is written, as the last line, exactly on the runs that      *)
(* wrote every glyph of the resolved range and return 0; a finished run    *)
(* whose output lacks it returned non-zero; nothing is written after a     *)
(* failure or after the end marker.                                        *)
(***************************************************************************)
\* C4, the states: end marker iff complete and result 0
C4_State ==
    /\ HasEOF =>
          /\ Done
          /\ Result = 0
          /\ IsEOF(out[Len(out)])
          /\ Cardinality({i \in DOMAIN out : IsEOF(out[i])}) = 1
          /\ GlyphIndices = Ascending(first_glyph_index, last_glyph_index)
    /\ (Done /\ ~HasEOF) => Result # 0
    /\ (Done /\ Result = 0) => HasEOF

\* C4, the steps: no write after a failure or after the end marker
C4_Step == ((Done /\ Result # 0) \/ HasEOF) => out' = out

\* C4: the end marker is written exactly on success, and last
C4_EndMarker == [](C4_State) /\ [][C4_Step]_vars

C4_Witness ==
    /\ pc = "exited"
    /\ exit_code = 0
    /\ HasEOF
    /\ Len(GlyphIndices) = 2

(***************************************************************************)
(* C5  The num_glyphs field is last - first + 1 of the resolved range, the *)
(* glyph records follow in ascending index order from first, and on a run  *)
(* without failure there is one for each index first..last, as many as the *)
(* field says.                                                             *)
(***************************************************************************)
C5_HeaderCount ==
    out # <<>> =>
        /\ NumGlyphsWritten = last_glyph_index - first_glyph_index + 1
        /\ pc \in {"loop", "render", "emit"} =>
              GlyphIndices = Ascending(first_glyph_index, glyph_index - 1)
        /\ (Done /\ Result = 0) =>
              /\ GlyphIndices = Ascending(first_glyph_index, last_glyph_index)
              /\ Len(GlyphIndices) = NumGlyphsWritten

C5_Witness ==
    /\ pc = "exited"
    /\ exit_code = 0
    /\ font.num_glyphs = 2
    /\ RequestedFirst = -3
    /\ RequestedLast = 100
    /\ NumGlyphsWritten = 2
    /\ GlyphIndices = <<0, 1>>
    /\ IsEOF(out[Len(out)])

(***************************************************************************)
(* C6  A failure to load or render glyph g ends the run with a non-zero    *)
(* result; the output is the document header and the complete records of   *)
(* first..g-1, nothing of g or of a later glyph, no '# EOF': a proper      *)
(* prefix of the dump of the run without failure.                          *)
(***************************************************************************)
RasterFailed ==
    /\ err # <<>>
    /\ err[Len(err)].tag \in {"failed to load glyph ", "failed to render glyph "}

FailedGlyph == ParseDec(err[Len(err)].val)

RECURSIVE Records(_, _)
Records(a, b) == IF a > b THEN <<>>
                 ELSE GlyphRecord(a, font.glyphs[a]) \o Records(a + 1, b)

IntendedDump ==
    DocHeader(font, size, first_glyph_index, last_glyph_index)
    \o Records(first_glyph_index, last_glyph_index)
    \o <<Line("# EOF", <<>>)>>

\* C6: a rasterization failure stops the run; the output is a proper prefix
C6_HardStop ==
    RasterFailed =>
        /\ Done
        /\ Result # 0
        /\ first_glyph_index <= FailedGlyph
        /\ FailedGlyph <= last_glyph_index
        /\ out = DocHeader(font, size, first_glyph_index, last_glyph_index)
                 \o Records(first_glyph_index, FailedGlyph - 1)
        /\ GlyphIndices = Ascending(first_glyph_index, FailedGlyph - 1)
        /\ ~HasEOF
        /\ font.num_glyphs > 0 =>
              /\ IsPrefix(out, IntendedDump)
              /\ out # IntendedDump

C6_Witness ==
    /\ pc = "exited"
    /\ RasterFailed
    /\ err[Len(err)].tag = "failed to render glyph "
    /\ FailedGlyph = 1
    /\ first_glyph_index = 0
    /\ GlyphIndices = <<0>>
    /\ exit_code # 0

(***************************************************************************)
(* C7  A font with a glyph count <= 0 makes render fail: a non-zero        *)
(* result, no range with first > last or a negative index, no num_glyphs   *)
(* field, no glyph record, no '# EOF', no glyph load.                      *)
(***************************************************************************)
C7_DegenerateFontFails ==
    (face /\ font.num_glyphs <= 0) =>
        /\ pc \in {"check_size", "set_size", "resolve", "returned", "exited"}
        /\ out = <<>>
        /\ Done => Result # 0

(***************************************************************************)
(* C8  An invalid pixel size is reported before the rasterization library  *)
(* is initialized and before the face is opened: render holds no resource  *)
(* when it returns the error, and returns the size error, not another one. *)
(***************************************************************************)
C8_SizeCheckedFirst ==
    (RenderCalled /\ size < MinSize) =>
        /\ ~library
        /\ ~face
        /\ pc = "returned" => error = SizeError

=============================================================================
